---- MODULE Spec2Model ----
(***************************************************************************)
(* Ad Copy Assistant: the nine server actions of src/src/actions/index.ts  *)
(* over the three tables AdCampaigns, AdCopies and AdPerformance.          *)
(*                                                                         *)
(* Every handler is a sequence of awaited store statements.  One step of   *)
(* the model is: the store executes the statement the handler is waiting   *)
(* on, and the handler's continuation runs synchronously up to its next    *)
(* await (or to its return / throw).  Handlers of different requests       *)
(* interleave between steps.  The store executes each statement            *)
(* atomically and applies exactly the predicate the handler wrote; the     *)
(* handlers, not the store, are what keep rows consistent.                 *)
(***************************************************************************)
EXTENDS Integers, FiniteSets

(* ---------------- bounds of the model ---------------- *)
MaxCampaigns == 2
MaxAdCopies == 2
MaxPerformance == 2
MaxTime == 1
MaxInFlight == 2
MaxCalls == 4

(* ---------------- values ---------------- *)
\* A key the caller left out of the input object (JavaScript undefined).
Undefined == "undefined"
\* What an optional column holds when the insert gave it no value.
Null == "null"
\* The same two for the number and date columns, whose values are integers.
UndefinedN == 0 - 1
NullN == 0 - 2
\* context.locals.user is absent.
NoUser == "nouser"
Users == {"u1", "u2"}
Callers == Users \cup {NoUser}

CampaignIds == 1..MaxCampaigns
AdCopyIds == 1..MaxAdCopies
Times == 0..MaxTime

VARIABLES
  Campaigns,      \* rows of AdCampaigns
  AdCopies,       \* rows of AdCopies
  Performance,    \* rows of AdPerformance
  adCopySeq,      \* ad copy ids handed out so far (ids are never reused)
  now,            \* the clock new Date() reads
  reqs,           \* in-flight handler invocations, by slot
  resp,           \* what the last finished invocation returned or threw
  calls,          \* invocations started so far
  createdBy       \* history: campaign id -> the user whose createCampaign inserted it

vars == <<Campaigns, AdCopies, Performance, adCopySeq, now, reqs, resp, calls, createdBy>>
tables == <<Campaigns, AdCopies, Performance>>

Slots == 1..MaxInFlight
Idle == [op |-> "idle"]
NoResp == [code |-> "NONE", message |-> "", key |-> "none", rows |-> {}, total |-> 0]

(* ---------------- messages of the errors ---------------- *)
SignInMessage == "You must be signed in to perform this action."
CampaignNotFound == "Campaign not found."
AdCopyNotFound == "Ad copy not found."
AtLeastOneField == "At least one field must be provided to update."
\* What z.string().min(1) reports for an empty string.
TooShort == "String must contain at least 1 character(s)"

(* ---------------- the schema's optional columns ---------------- *)
CampaignOptional == {"objective", "productName", "targetAudience", "notes"}
CampaignUpdatable == {"name"} \cup CampaignOptional
AdCopyOptional ==
  {"platform", "headline", "description", "callToAction", "tone", "variantLabel", "url"}
AdCopyUpdatable == {"primaryText"} \cup AdCopyOptional
PerformanceNumeric == {"date", "impressions", "clicks", "conversions", "spend"}
PerformanceText == {"currency", "notes"}
PerformanceOptional == PerformanceNumeric \cup PerformanceText

\* A column given undefined in .values() is stored as NULL.
Stored(v) == IF v = Undefined THEN Null ELSE v

\* Faulty variant: a missing number is stored as 0.
StoredN_zero(v) == IF v = UndefinedN THEN 0 ELSE v

StoredN(v) == IF v = UndefinedN THEN NullN ELSE v

(* ---------------- helpers of the handlers ---------------- *)
\* Faulty variant: the check of the user is missing.
requireUser_always(caller) == TRUE

\* requireUser: the user of the context, or UNAUTHORIZED.
requireUser(caller) == caller # NoUser

\* Faulty variant: the select is filtered by id alone.
getOwnedCampaign_anyOwner(campaignId, userId) ==
  {c \in Campaigns : c.id = campaignId}

\* getOwnedCampaign's select: where id = campaignId and userId = userId.
getOwnedCampaign(campaignId, userId) ==
  {c \in Campaigns : c.id = campaignId /\ c.userId = userId}

\* getOwnedAdCopy's select: where id = adCopyId and userId = userId.
getOwnedAdCopy(adCopyId, userId) ==
  {a \in AdCopies : a.id = adCopyId /\ a.userId = userId}

\* The object given to .set(): the supplied keys, and updatedAt.
SetClause(input, fields, ts) ==
  [f \in {g \in fields : input[g] # Undefined} \cup {"updatedAt"} |->
     IF f = "updatedAt" THEN ts ELSE input[f]]

\* UPDATE ... SET on one row: the columns of the set clause, the rest kept.
ApplySet(row, set) ==
  [f \in DOMAIN row |-> IF f \in DOMAIN set THEN set[f] ELSE row[f]]

(* ---------------- input schemas (zod) ---------------- *)
\* Each gives the message of the validation error, or "" for a valid input.
\* name: z.string().min(1)
createCampaignIssue(input) == IF input.name = "" THEN TooShort ELSE ""

\* Faulty variant: the refine is missing.
updateCampaignIssue_noRefine(input) == IF input.name = "" THEN TooShort ELSE ""

\* name: z.string().min(1).optional(), then the refine: some field is given.
updateCampaignIssue(input) ==
  IF input.name = "" THEN TooShort
  ELSE IF \A f \in CampaignUpdatable : input[f] = Undefined THEN AtLeastOneField
  ELSE ""

\* primaryText: z.string().min(1)
createAdCopyIssue(input) == IF input.primaryText = "" THEN TooShort ELSE ""

\* every field z.string().optional(), then the refine: some field is given.
updateAdCopyIssue(input) ==
  IF \A f \in AdCopyUpdatable : input[f] = Undefined THEN AtLeastOneField ELSE ""

(* ---------------- inputs the model draws ---------------- *)
NoCampaignPatch == [f \in CampaignUpdatable |-> Undefined]
NoAdCopyPatch == [f \in AdCopyUpdatable |-> Undefined]
NoPerformanceInput == [f \in PerformanceOptional |-> IF f \in PerformanceText THEN Undefined ELSE UndefinedN]

createCampaignInputs ==
  {[NoCampaignPatch EXCEPT !.name = "a", !.objective = "a"]}

CampaignPatches ==
  {NoCampaignPatch,
   [NoCampaignPatch EXCEPT !.name = "b"],
   [NoCampaignPatch EXCEPT !.objective = ""]}

updateCampaignInputs ==
  {[id |-> i, patch |-> p] : i \in CampaignIds, p \in CampaignPatches}

createAdCopyInputs ==
  {[campaignId |-> c, fields |-> f] :
     c \in CampaignIds,
     f \in {[NoAdCopyPatch EXCEPT !.primaryText = "t", !.headline = "h"]}}

AdCopyPatches ==
  {NoAdCopyPatch,
   [NoAdCopyPatch EXCEPT !.headline = ""]}

updateAdCopyInputs ==
  {[id |-> i, campaignId |-> c, patch |-> p] :
     i \in AdCopyIds, c \in CampaignIds, p \in AdCopyPatches}

deleteAdCopyInputs == {[id |-> i, campaignId |-> c] : i \in AdCopyIds, c \in CampaignIds}

logAdPerformanceInputs ==
  {[adCopyId |-> a, fields |-> f] :
     a \in AdCopyIds,
     f \in {[NoPerformanceInput EXCEPT !.impressions = 100],
            [NoPerformanceInput EXCEPT !.date = 0, !.clicks = 5]}}

(* ---------------- bookkeeping of an invocation ---------------- *)
InFlight(op) == {s \in Slots : reqs[s].op = op}
CanCall == calls < MaxCalls
FreeSlot(s) == reqs[s] = Idle /\ \A t \in Slots : t < s => reqs[t] # Idle

\* The result envelope, or the error thrown.  key is the key of data
\* (campaign, adCopy, performance, items; none when there is no data);
\* rows holds the row under that key (no row when it is undefined) or the
\* rows of items; total is data.total of a list.
Envelope(code, message, key, rows, total) ==
  [code |-> code, message |-> message, key |-> key, rows |-> rows, total |-> total]

Failure(code, message) == Envelope(code, message, "none", {}, 0)

\* The input schema rejects the input, or requireUser throws: both happen
\* before the handler awaits anything.
Rejected(caller, issue) ==
  /\ issue # "" \/ ~requireUser(caller)
  /\ resp' = IF issue # "" THEN Failure("VALIDATION", issue)
                           ELSE Failure("UNAUTHORIZED", SignInMessage)
  /\ UNCHANGED <<tables, adCopySeq, now, reqs, createdBy>>

\* The handler runs up to its first await.
Accepted(caller, issue, req) ==
  /\ issue = "" /\ requireUser(caller)
  /\ \E s \in Slots : FreeSlot(s) /\ reqs' = [reqs EXCEPT ![s] = req]
  /\ UNCHANGED <<tables, adCopySeq, now, resp, createdBy>>

Call(caller, issue, req) ==
  /\ calls' = calls + 1
  /\ \/ Rejected(caller, issue)
     \/ Accepted(caller, issue, req)

Throw(s, code, message) ==
  /\ reqs' = [reqs EXCEPT ![s] = Idle]
  /\ resp' = Failure(code, message)

Return(s, key, rows, total) ==
  /\ reqs' = [reqs EXCEPT ![s] = Idle]
  /\ resp' = Envelope("OK", "", key, rows, total)

Goto(s, pc) == reqs' = [reqs EXCEPT ![s].pc = pc] /\ UNCHANGED resp

At(s, op, pc) == reqs[s].op = op /\ reqs[s].pc = pc

(* ---------------- createCampaign ---------------- *)
createCampaign_call(caller, input) ==
  /\ CanCall
  /\ Cardinality(Campaigns) + Cardinality(InFlight("createCampaign")) < MaxCampaigns
  /\ Call(caller, createCampaignIssue(input),
          [op |-> "createCampaign", user |-> caller, input |-> input,
           pc |-> "insert", ts |-> now])

createCampaign_row(user, input, ts) ==
  [id |-> Cardinality(Campaigns) + 1,
   userId |-> user,
   name |-> input.name,
   objective |-> Stored(input.objective),
   productName |-> Stored(input.productName),
   targetAudience |-> Stored(input.targetAudience),
   notes |-> Stored(input.notes),
   createdAt |-> ts,
   updatedAt |-> ts]

createCampaign_insert(s) ==
  /\ At(s, "createCampaign", "insert")
  /\ LET r == reqs[s]
         campaign == createCampaign_row(r.user, r.input, r.ts)
     IN /\ Campaigns' = Campaigns \cup {campaign}
        /\ createdBy' = createdBy \cup {<<campaign.id, r.user>>}
        /\ Return(s, "campaign", {campaign}, 0)
  /\ UNCHANGED <<AdCopies, Performance, adCopySeq, now, calls>>

(* ---------------- updateCampaign ---------------- *)
updateCampaign_call(caller, input) ==
  /\ CanCall
  /\ Call(caller, updateCampaignIssue(input.patch),
          [op |-> "updateCampaign", user |-> caller, input |-> input,
           pc |-> "guard", ts |-> 0])

\* await getOwnedCampaign(input.id, user.id); then the update statement is
\* built, new Date() included, and sent.
updateCampaign_guard(s) ==
  /\ At(s, "updateCampaign", "guard")
  /\ LET r == reqs[s]
     IN IF getOwnedCampaign(r.input.id, r.user) = {}
        THEN Throw(s, "NOT_FOUND", CampaignNotFound)
        ELSE /\ reqs' = [reqs EXCEPT ![s].pc = "update", ![s].ts = now]
             /\ UNCHANGED resp
  /\ UNCHANGED <<tables, adCopySeq, now, calls, createdBy>>

\* update(AdCampaigns).set(...).where(eq(AdCampaigns.id, input.id)).returning()
updateCampaign_where(input, user) == {c \in Campaigns : c.id = input.id}

updateCampaign_update(s) ==
  /\ At(s, "updateCampaign", "update")
  /\ LET r == reqs[s]
         hit == updateCampaign_where(r.input, r.user)
         updated == {ApplySet(c, SetClause(r.input.patch, CampaignUpdatable, r.ts)) : c \in hit}
     IN /\ Campaigns' = (Campaigns \ hit) \cup updated
        /\ Return(s, "campaign", updated, 0)
  /\ UNCHANGED <<AdCopies, Performance, adCopySeq, now, calls, createdBy>>

(* ---------------- listCampaigns ---------------- *)
listCampaigns_call(caller) ==
  /\ CanCall
  /\ Call(caller, "",
          [op |-> "listCampaigns", user |-> caller, pc |-> "select"])

\* Faulty variant: the select has no where clause.
listCampaigns_allUsers(user) == Campaigns

\* select().from(AdCampaigns).where(eq(AdCampaigns.userId, user.id))
listCampaigns_where(user) == {c \in Campaigns : c.userId = user}

listCampaigns_select(s) ==
  /\ At(s, "listCampaigns", "select")
  /\ LET campaigns == listCampaigns_where(reqs[s].user)
     IN Return(s, "items", campaigns, Cardinality(campaigns))
  /\ UNCHANGED <<tables, adCopySeq, now, calls, createdBy>>

(* ---------------- createAdCopy ---------------- *)
createAdCopy_call(caller, input) ==
  /\ CanCall
  /\ adCopySeq + Cardinality(InFlight("createAdCopy")) < MaxAdCopies
  /\ Call(caller, createAdCopyIssue(input.fields),
          [op |-> "createAdCopy", user |-> caller, input |-> input,
           pc |-> "guard", ts |-> 0])

\* await getOwnedCampaign(input.campaignId, user.id); const now = new Date()
createAdCopy_guard(s) ==
  /\ At(s, "createAdCopy", "guard")
  /\ LET r == reqs[s]
     IN IF getOwnedCampaign(r.input.campaignId, r.user) = {}
        THEN Throw(s, "NOT_FOUND", CampaignNotFound)
        ELSE /\ reqs' = [reqs EXCEPT ![s].pc = "insert", ![s].ts = now]
             /\ UNCHANGED resp
  /\ UNCHANGED <<tables, adCopySeq, now, calls, createdBy>>

createAdCopy_row(user, input, ts) ==
  [id |-> adCopySeq + 1,
   campaignId |-> input.campaignId,
   userId |-> user,
   platform |-> Stored(input.fields.platform),
   headline |-> Stored(input.fields.headline),
   primaryText |-> input.fields.primaryText,
   description |-> Stored(input.fields.description),
   callToAction |-> Stored(input.fields.callToAction),
   tone |-> Stored(input.fields.tone),
   variantLabel |-> Stored(input.fields.variantLabel),
   url |-> Stored(input.fields.url),
   createdAt |-> ts,
   updatedAt |-> ts]

createAdCopy_insert(s) ==
  /\ At(s, "createAdCopy", "insert")
  /\ LET r == reqs[s]
         adCopy == createAdCopy_row(r.user, r.input, r.ts)
     IN /\ AdCopies' = AdCopies \cup {adCopy}
        /\ adCopySeq' = adCopySeq + 1
        /\ Return(s, "adCopy", {adCopy}, 0)
  /\ UNCHANGED <<Campaigns, Performance, now, calls, createdBy>>

(* ---------------- updateAdCopy ---------------- *)
updateAdCopy_call(caller, input) ==
  /\ CanCall
  /\ Call(caller, updateAdCopyIssue(input.patch),
          [op |-> "updateAdCopy", user |-> caller, input |-> input,
           pc |-> "guard", ts |-> 0])

updateAdCopy_guard(s) ==
  /\ At(s, "updateAdCopy", "guard")
  /\ LET r == reqs[s]
     IN IF getOwnedCampaign(r.input.campaignId, r.user) = {}
        THEN Throw(s, "NOT_FOUND", CampaignNotFound)
        ELSE Goto(s, "existing")
  /\ UNCHANGED <<tables, adCopySeq, now, calls, createdBy>>

\* select().from(AdCopies).where(and(id, campaignId, userId))
updateAdCopy_existing_where(input, user) ==
  {a \in AdCopies : a.id = input.id /\ a.campaignId = input.campaignId /\ a.userId = user}

\* The existence check; then the update statement is built, new Date()
\* included, and sent.
updateAdCopy_existing(s) ==
  /\ At(s, "updateAdCopy", "existing")
  /\ LET r == reqs[s]
     IN IF updateAdCopy_existing_where(r.input, r.user) = {}
        THEN Throw(s, "NOT_FOUND", AdCopyNotFound)
        ELSE /\ reqs' = [reqs EXCEPT ![s].pc = "update", ![s].ts = now]
             /\ UNCHANGED resp
  /\ UNCHANGED <<tables, adCopySeq, now, calls, createdBy>>

\* update(AdCopies).set(...).where(eq(AdCopies.id, input.id)).returning()
updateAdCopy_where(input, user) == {a \in AdCopies : a.id = input.id}

updateAdCopy_update(s) ==
  /\ At(s, "updateAdCopy", "update")
  /\ LET r == reqs[s]
         hit == updateAdCopy_where(r.input, r.user)
         updated == {ApplySet(a, SetClause(r.input.patch, AdCopyUpdatable, r.ts)) : a \in hit}
     IN /\ AdCopies' = (AdCopies \ hit) \cup updated
        /\ Return(s, "adCopy", updated, 0)
  /\ UNCHANGED <<Campaigns, Performance, adCopySeq, now, calls, createdBy>>

(* ---------------- deleteAdCopy ---------------- *)
deleteAdCopy_call(caller, input) ==
  /\ CanCall
  /\ Call(caller, "",
          [op |-> "deleteAdCopy", user |-> caller, input |-> input, pc |-> "guard"])

deleteAdCopy_guard(s) ==
  /\ At(s, "deleteAdCopy", "guard")
  /\ LET r == reqs[s]
     IN IF getOwnedCampaign(r.input.campaignId, r.user) = {}
        THEN Throw(s, "NOT_FOUND", CampaignNotFound)
        ELSE Goto(s, "delete")
  /\ UNCHANGED <<tables, adCopySeq, now, calls, createdBy>>

\* Faulty variant: the delete is not filtered by the ad copy's id.
deleteAdCopy_anyId(input, user) ==
  {a \in AdCopies : a.campaignId = input.campaignId /\ a.userId = user}

\* delete(AdCopies).where(and(id, campaignId, userId))
deleteAdCopy_where(input, user) ==
  {a \in AdCopies : a.id = input.id /\ a.campaignId = input.campaignId /\ a.userId = user}

deleteAdCopy_delete(s) ==
  /\ At(s, "deleteAdCopy", "delete")
  /\ LET r == reqs[s]
         hit == deleteAdCopy_where(r.input, r.user)
     IN /\ AdCopies' = AdCopies \ hit
        /\ IF Cardinality(hit) = 0
           THEN Throw(s, "NOT_FOUND", AdCopyNotFound)
           ELSE Return(s, "none", {}, 0)
  /\ UNCHANGED <<Campaigns, Performance, adCopySeq, now, calls, createdBy>>

(* ---------------- listAdCopies ---------------- *)
listAdCopies_call(caller, campaignId) ==
  /\ CanCall
  /\ Call(caller, "",
          [op |-> "listAdCopies", user |-> caller, input |-> [campaignId |-> campaignId],
           pc |-> "guard"])

listAdCopies_guard(s) ==
  /\ At(s, "listAdCopies", "guard")
  /\ LET r == reqs[s]
     IN IF getOwnedCampaign(r.input.campaignId, r.user) = {}
        THEN Throw(s, "NOT_FOUND", CampaignNotFound)
        ELSE Goto(s, "select")
  /\ UNCHANGED <<tables, adCopySeq, now, calls, createdBy>>

\* select().from(AdCopies).where(and(campaignId, userId))
listAdCopies_where(campaignId, user) ==
  {a \in AdCopies : a.campaignId = campaignId /\ a.userId = user}

listAdCopies_select(s) ==
  /\ At(s, "listAdCopies", "select")
  /\ LET copies == listAdCopies_where(reqs[s].input.campaignId, reqs[s].user)
     IN Return(s, "items", copies, Cardinality(copies))
  /\ UNCHANGED <<tables, adCopySeq, now, calls, createdBy>>

(* ---------------- logAdPerformance ---------------- *)
logAdPerformance_call(caller, input) ==
  /\ CanCall
  /\ Cardinality(Performance) + Cardinality(InFlight("logAdPerformance")) < MaxPerformance
  /\ Call(caller, "",
          [op |-> "logAdPerformance", user |-> caller, input |-> input,
           pc |-> "adCopy", campaignId |-> 0, ts |-> 0])

\* const adCopy = await getOwnedAdCopy(input.adCopyId, user.id)
logAdPerformance_adCopy(s) ==
  /\ At(s, "logAdPerformance", "adCopy")
  /\ LET r == reqs[s]
         found == getOwnedAdCopy(r.input.adCopyId, r.user)
     IN IF found = {}
        THEN Throw(s, "NOT_FOUND", AdCopyNotFound)
        ELSE /\ reqs' = [reqs EXCEPT ![s].pc = "guard", ![s].campaignId = (CHOOSE a \in found : TRUE).campaignId]
             /\ UNCHANGED resp
  /\ UNCHANGED <<tables, adCopySeq, now, calls, createdBy>>

\* await getOwnedCampaign(adCopy.campaignId, user.id); then the insert is
\* built, new Date() for a missing date included, and sent.
logAdPerformance_guard(s) ==
  /\ At(s, "logAdPerformance", "guard")
  /\ LET r == reqs[s]
     IN IF getOwnedCampaign(r.campaignId, r.user) = {}
        THEN Throw(s, "NOT_FOUND", CampaignNotFound)
        ELSE /\ reqs' = [reqs EXCEPT ![s].pc = "insert", ![s].ts = now]
             /\ UNCHANGED resp
  /\ UNCHANGED <<tables, adCopySeq, now, calls, createdBy>>

\* date: input.date ?? new Date()
logAdPerformance_date(input, ts) ==
  IF input.fields.date = UndefinedN THEN ts ELSE input.fields.date

logAdPerformance_row(input, ts) ==
  [id |-> Cardinality(Performance) + 1,
   adCopyId |-> input.adCopyId,
   date |-> logAdPerformance_date(input, ts),
   impressions |-> StoredN(input.fields.impressions),
   clicks |-> StoredN(input.fields.clicks),
   conversions |-> StoredN(input.fields.conversions),
   spend |-> StoredN(input.fields.spend),
   currency |-> Stored(input.fields.currency),
   notes |-> Stored(input.fields.notes)]

logAdPerformance_insert(s) ==
  /\ At(s, "logAdPerformance", "insert")
  /\ LET r == reqs[s]
         performance == logAdPerformance_row(r.input, r.ts)
     IN /\ Performance' = Performance \cup {performance}
        /\ Return(s, "performance", {performance}, 0)
  /\ UNCHANGED <<Campaigns, AdCopies, adCopySeq, now, calls, createdBy>>

(* ---------------- listAdPerformance ---------------- *)
listAdPerformance_call(caller, adCopyId) ==
  /\ CanCall
  /\ Call(caller, "",
          [op |-> "listAdPerformance", user |-> caller, input |-> [adCopyId |-> adCopyId],
           pc |-> "adCopy", campaignId |-> 0])

listAdPerformance_adCopy(s) ==
  /\ At(s, "listAdPerformance", "adCopy")
  /\ LET r == reqs[s]
         found == getOwnedAdCopy(r.input.adCopyId, r.user)
     IN IF found = {}
        THEN Throw(s, "NOT_FOUND", AdCopyNotFound)
        ELSE /\ reqs' = [reqs EXCEPT ![s].pc = "guard", ![s].campaignId = (CHOOSE a \in found : TRUE).campaignId]
             /\ UNCHANGED resp
  /\ UNCHANGED <<tables, adCopySeq, now, calls, createdBy>>

listAdPerformance_guard(s) ==
  /\ At(s, "listAdPerformance", "guard")
  /\ LET r == reqs[s]
     IN IF getOwnedCampaign(r.campaignId, r.user) = {}
        THEN Throw(s, "NOT_FOUND", CampaignNotFound)
        ELSE Goto(s, "select")
  /\ UNCHANGED <<tables, adCopySeq, now, calls, createdBy>>

\* select().from(AdPerformance).where(eq(AdPerformance.adCopyId, input.adCopyId))
listAdPerformance_where(adCopyId) == {p \in Performance : p.adCopyId = adCopyId}

listAdPerformance_select(s) ==
  /\ At(s, "listAdPerformance", "select")
  /\ LET performances == listAdPerformance_where(reqs[s].input.adCopyId)
     IN Return(s, "items", performances, Cardinality(performances))
  /\ UNCHANGED <<tables, adCopySeq, now, calls, createdBy>>

(* ---------------- the clock ---------------- *)
Tick ==
  /\ now < MaxTime
  /\ now' = now + 1
  /\ UNCHANGED <<tables, adCopySeq, reqs, resp, calls, createdBy>>

Init ==
  /\ Campaigns = {}
  /\ AdCopies = {}
  /\ Performance = {}
  /\ adCopySeq = 0
  /\ now = 0
  /\ reqs = [s \in Slots |-> Idle]
  /\ resp = NoResp
  /\ calls = 0
  /\ createdBy = {}

Next ==
  \/ \E u \in Callers, i \in createCampaignInputs : createCampaign_call(u, i)
  \/ \E s \in Slots : createCampaign_insert(s)
  \/ \E u \in Callers, i \in updateCampaignInputs : updateCampaign_call(u, i)
  \/ \E s \in Slots : updateCampaign_guard(s)
  \/ \E s \in Slots : updateCampaign_update(s)
  \/ \E u \in Callers : listCampaigns_call(u)
  \/ \E s \in Slots : listCampaigns_select(s)
  \/ \E u \in Callers, i \in createAdCopyInputs : createAdCopy_call(u, i)
  \/ \E s \in Slots : createAdCopy_guard(s)
  \/ \E s \in Slots : createAdCopy_insert(s)
  \/ \E u \in Callers, i \in updateAdCopyInputs : updateAdCopy_call(u, i)
  \/ \E s \in Slots : updateAdCopy_guard(s)
  \/ \E s \in Slots : updateAdCopy_existing(s)
  \/ \E s \in Slots : updateAdCopy_update(s)
  \/ \E u \in Callers, i \in deleteAdCopyInputs : deleteAdCopy_call(u, i)
  \/ \E s \in Slots : deleteAdCopy_guard(s)
  \/ \E s \in Slots : deleteAdCopy_delete(s)
  \/ \E u \in Callers, c \in CampaignIds : listAdCopies_call(u, c)
  \/ \E s \in Slots : listAdCopies_guard(s)
  \/ \E s \in Slots : listAdCopies_select(s)
  \/ \E u \in Callers, i \in logAdPerformanceInputs : logAdPerformance_call(u, i)
  \/ \E s \in Slots : logAdPerformance_adCopy(s)
  \/ \E s \in Slots : logAdPerformance_guard(s)
  \/ \E s \in Slots : logAdPerformance_insert(s)
  \/ \E u \in Callers, a \in AdCopyIds : listAdPerformance_call(u, a)
  \/ \E s \in Slots : listAdPerformance_adCopy(s)
  \/ \E s \in Slots : listAdPerformance_guard(s)
  \/ \E s \in Slots : listAdPerformance_select(s)
  \/ Tick

Spec == Init /\ [][Next]_vars

(***************************************************************************)
(* Properties.  A step of slot s is a step that changes reqs[s]: the store *)
(* executed the statement the handler in s was waiting on.                 *)
(***************************************************************************)
Stepped(s) == reqs'[s] # reqs[s]

\* The handlers that take a campaign id and write.
CampaignScoped == {"updateCampaign", "createAdCopy", "updateAdCopy", "deleteAdCopy"}
TargetCampaign(r) == IF r.op = "updateCampaign" THEN r.input.id ELSE r.input.campaignId
ForeignCampaign(campaignId, user) ==
  \E c \in Campaigns : c.id = campaignId /\ c.userId # user
OnForeignCampaign(s) ==
  /\ reqs[s].op \in CampaignScoped
  /\ ForeignCampaign(TargetCampaign(reqs[s]), reqs[s].user)

\* C1: a handler that takes a campaign id (updateCampaign, createAdCopy,
\* updateAdCopy, deleteAdCopy), running as a user other than the campaign's
\* owner, ends at its next step with NOT_FOUND, and that step leaves the three
\* tables exactly as they were.
C1_ForeignCampaignNotFound ==
  [][\A s \in Slots :
       OnForeignCampaign(s) /\ Stepped(s) =>
         /\ reqs'[s] = Idle
         /\ resp' = Failure("NOT_FOUND", CampaignNotFound)
         /\ UNCHANGED tables]_vars

\* A request on another user's campaign is in flight, after an earlier
\* request was answered "Campaign not found." with a campaign and an ad copy stored.
C1_Witness ==
  /\ \E s \in Slots : OnForeignCampaign(s)
  /\ resp = Failure("NOT_FOUND", CampaignNotFound)
  /\ AdCopies # {}

\* C2: listCampaigns as user u returns exactly the campaigns u's
\* createCampaign inserted: each of them, none created by another user, and
\* total is the number of items.
C2_ListCampaignsExactlyOwn ==
  [][\A s \in Slots :
       At(s, "listCampaigns", "select") /\ Stepped(s) =>
         LET u == reqs[s].user
         IN /\ resp'.code = "OK" /\ resp'.key = "items"
            /\ \A e \in createdBy :
                 (e[2] = u) <=> (\E c \in resp'.rows : c.id = e[1])
            /\ \A c \in resp'.rows : c \in Campaigns /\ <<c.id, u>> \in createdBy
            /\ resp'.total = Cardinality(resp'.rows)]_vars

\* A list was answered with one campaign while two users each have one.
C2_Witness ==
  /\ resp.code = "OK" /\ resp.key = "items" /\ resp.total = 1
  /\ resp.rows \subseteq Campaigns
  /\ \E e1 \in createdBy, e2 \in createdBy : e1[2] # e2[2]

OnlyField(patch, f) ==
  /\ patch[f] # Undefined
  /\ \A g \in DOMAIN patch : g # f => patch[g] = Undefined

\* The frame of one update statement: of the rows hit, only column f and
\* updatedAt change, updatedAt does not go back, and no other row changes.
UpdateFrame(before, after, id, patch, f) ==
  /\ \A row \in before : row.id # id => row \in after
  /\ \A row \in after : row.id # id => row \in before
  /\ \A old \in before : old.id = id =>
       \E new \in after :
         /\ new.id = id
         /\ new[f] = patch[f]
         /\ \A g \in DOMAIN old : g \notin {f, "updatedAt"} => new[g] = old[g]
         /\ new.updatedAt >= old.updatedAt

\* C4: an update statement of updateCampaign or updateAdCopy whose input
\* supplies only field X changes, in the target row, only X and updatedAt,
\* changes no other row of any table, and does not lower updatedAt.
C4_SparseUpdateFrame ==
  [][\A s \in Slots :
       /\ (At(s, "updateCampaign", "update") /\ Stepped(s) =>
             \A f \in CampaignUpdatable :
               OnlyField(reqs[s].input.patch, f) =>
                 /\ UpdateFrame(Campaigns, Campaigns', reqs[s].input.id, reqs[s].input.patch, f)
                 /\ UNCHANGED <<AdCopies, Performance>>)
       /\ (At(s, "updateAdCopy", "update") /\ Stepped(s) =>
             \A f \in AdCopyUpdatable :
               OnlyField(reqs[s].input.patch, f) =>
                 /\ UpdateFrame(AdCopies, AdCopies', reqs[s].input.id, reqs[s].input.patch, f)
                 /\ UNCHANGED <<Campaigns, Performance>>)]_vars

\* What a refused call does: the error is the answer, no handler is started
\* (so no statement is issued) and the tables are as they were.
RefusedWith(code, message) ==
  /\ resp' = Failure(code, message)
  /\ reqs' = reqs
  /\ UNCHANGED tables

\* C5: in every reachable state, a call of updateCampaign or updateAdCopy
\* with the id(s) and no updatable field can only end refused with the
\* validation error "At least one field must be provided to update.", with
\* no statement issued and every table, the target row's updatedAt included,
\* unchanged.
C5_EmptyUpdateRejected ==
  /\ \A u \in Callers, c \in CampaignIds :
       ~ENABLED (/\ updateCampaign_call(u, [id |-> c, patch |-> NoCampaignPatch])
                 /\ ~RefusedWith("VALIDATION", AtLeastOneField))
  /\ \A u \in Callers, a \in AdCopyIds, c \in CampaignIds :
       ~ENABLED (/\ updateAdCopy_call(u, [id |-> a, campaignId |-> c, patch |-> NoAdCopyPatch])
                 /\ ~RefusedWith("VALIDATION", AtLeastOneField))

\* An update without fields was rejected while a campaign and an ad copy exist.
C5_Witness ==
  /\ resp = Failure("VALIDATION", AtLeastOneField)
  /\ Campaigns # {}
  /\ AdCopies # {}

\* A call of any of the nine actions by the caller, with an input the
\* schema accepts.
ValidCallBy(caller) ==
  \/ \E i \in createCampaignInputs : createCampaignIssue(i) = "" /\ createCampaign_call(caller, i)
  \/ \E i \in updateCampaignInputs :
       updateCampaignIssue(i.patch) = "" /\ updateCampaign_call(caller, i)
  \/ listCampaigns_call(caller)
  \/ \E i \in createAdCopyInputs : createAdCopyIssue(i.fields) = "" /\ createAdCopy_call(caller, i)
  \/ \E i \in updateAdCopyInputs : updateAdCopyIssue(i.patch) = "" /\ updateAdCopy_call(caller, i)
  \/ \E i \in deleteAdCopyInputs : deleteAdCopy_call(caller, i)
  \/ \E c \in CampaignIds : listAdCopies_call(caller, c)
  \/ \E i \in logAdPerformanceInputs : logAdPerformance_call(caller, i)
  \/ \E a \in AdCopyIds : listAdPerformance_call(caller, a)

\* C6: in every reachable state, a call of any of the nine actions with no
\* user in the context (and an input the schema accepts, so that the handler
\* is invoked) can only end refused with UNAUTHORIZED: the handler awaits
\* nothing, so no statement is issued, and the tables are unchanged.
C6_NoUserUnauthorized ==
  ~ENABLED (/\ ValidCallBy(NoUser)
            /\ ~RefusedWith("UNAUTHORIZED", SignInMessage))

\* A call without a user was refused while rows exist in every table.
C6_Witness ==
  /\ resp = Failure("UNAUTHORIZED", SignInMessage)
  /\ Campaigns # {} /\ AdCopies # {} /\ Performance # {}

OnlyImpressions(fields) ==
  /\ fields.impressions # UndefinedN
  /\ fields = [NoPerformanceInput EXCEPT !.impressions = fields.impressions]

Absent(f, v) == IF f \in PerformanceText THEN v = Null ELSE v = NullN

\* What logAdPerformance's insert and listAdPerformance's select do for an
\* input of adCopyId and impressions only; absent says which of the other
\* optional columns of the new record hold no value.
LogThenList(absent) ==
  \A s \in Slots :
    /\ (At(s, "logAdPerformance", "insert") /\ Stepped(s)
          /\ OnlyImpressions(reqs[s].input.fields) =>
          \E p \in Performance' :
            /\ p \notin Performance
            /\ Performance' = Performance \cup {p}
            /\ resp' = Envelope("OK", "", "performance", {p}, 0)
            /\ p.adCopyId = reqs[s].input.adCopyId
            /\ p.impressions = reqs[s].input.fields.impressions
            /\ \A f \in absent : Absent(f, p[f])
            /\ \A f \in PerformanceOptional \ (absent \cup {"impressions"}) : ~Absent(f, p[f]))
    /\ (At(s, "listAdPerformance", "select") /\ Stepped(s) =>
          LET records == {p \in Performance : p.adCopyId = reqs[s].input.adCopyId}
          IN /\ getOwnedAdCopy(reqs[s].input.adCopyId, reqs[s].user) # {} =>
                  resp' = Envelope("OK", "", "items", records, Cardinality(records))
             /\ UNCHANGED tables)

\* C7 as stated: the record logged with adCopyId and impressions only has
\* every other optional field, date included, absent; listAdPerformance
\* returns the records of the ad copy, one per logAdPerformance.
C7_AllUnsuppliedAbsent ==
  [][LogThenList(PerformanceOptional \ {"impressions"})]_vars

\* C7 amended: the record logged with adCopyId and impressions only has
\* clicks, conversions, spend, currency and notes absent, and its date set
\* (to the time the handler read when it built the insert); listAdPerformance
\* returns the records of the ad copy, one per logAdPerformance.
C7_UnsuppliedAbsentExceptDate ==
  [][/\ LogThenList(PerformanceOptional \ {"impressions", "date"})
     /\ \A s \in Slots :
          At(s, "logAdPerformance", "insert") /\ Stepped(s)
            /\ OnlyImpressions(reqs[s].input.fields) =>
            \A p \in Performance' \ Performance : p.date = reqs[s].ts /\ p.date \in Times]_vars

\* listAdPerformance answered with the single record logged with impressions only.
C7_Witness ==
  /\ resp.code = "OK" /\ resp.key = "items" /\ resp.total = 1
  /\ \E p \in resp.rows :
       /\ p \in Performance
       /\ p.impressions = 100
       /\ p.clicks = NullN
       /\ p.date # NullN

\* C8: every stored ad copy references a stored campaign whose owner is the
\* ad copy's own owner.
C8_AdCopyCampaignSameOwner ==
  \A a \in AdCopies :
    \E c \in Campaigns : c.id = a.campaignId /\ c.userId = a.userId

\* Two users each own a campaign with an ad copy in it.
C8_Witness ==
  \E a1 \in AdCopies, a2 \in AdCopies :
    /\ a1.userId # a2.userId
    /\ Cardinality(Campaigns) = 2

\* C9: an update statement of updateAdCopy or updateCampaign that returns
\* success returns the updated row: the row of the requested id, owned by
\* the caller (under the requested campaign, for updateAdCopy), carrying the
\* supplied values.
C9_UpdateReturnsRow ==
  [][\A s \in Slots :
       (At(s, "updateAdCopy", "update") \/ At(s, "updateCampaign", "update"))
         /\ Stepped(s) /\ resp'.code = "OK" =>
         LET r == reqs[s]
         IN /\ resp'.rows # {}
            /\ \A row \in resp'.rows :
                 /\ row.id = r.input.id
                 /\ row.userId = r.user
                 /\ r.op = "updateAdCopy" => row.campaignId = r.input.campaignId
                 /\ \A f \in DOMAIN r.input.patch :
                      r.input.patch[f] # Undefined => row[f] = r.input.patch[f]]_vars

====
